---- MODULE Spec2Model ----
(***************************************************************************)
(* Model of aethersync_edgar_ingest.py: the daily EDGAR index ingester.    *)
(* Text is modelled as sequences of one-character strings, so that split,  *)
(* strip and replace are computed the way Python computes them.            *)
(***************************************************************************)
EXTENDS Integers, Sequences, FiniteSets, TLC

\* ------------------------------------------------------------------ bounds
MaxLineLen == 6   \* longest index line drawn by the parser specification
MaxLines   == 1   \* published lines before the last line in the parser specification
MaxNameLen == 6   \* longest filename stem drawn by the accession specification
MaxIdxLines == 2  \* longest daily index the archive serves to the job
MaxRuns    == 2   \* invocations of main in one behaviour

\* --------------------------------------------------------------- constants
TARGET_FORMS ==
    { <<"1","0","-","K">>, <<"1","0","-","Q">>, <<"1","3","F">>,
      <<"1","3","D">>, <<"4">> }

ARCHIVES == <<"https://www.sec.gov/Archives/">>

TXT == <<".","t","x","t">>

\* characters str.strip() removes, as far as the drawn alphabets contain them
Whitespace == {" ", "\n"}

\* ------------------------------------------------------- string operations
RECURSIVE LStrip(_)
LStrip(s) ==
    IF s = <<>> THEN s
    ELSE IF Head(s) \in Whitespace THEN LStrip(Tail(s)) ELSE s

RECURSIVE RStrip(_)
RStrip(s) ==
    IF s = <<>> THEN s
    ELSE IF s[Len(s)] \in Whitespace THEN RStrip(SubSeq(s, 1, Len(s) - 1)) ELSE s

\* str.strip()
Strip(s) == RStrip(LStrip(s))

\* c in s
Contains(s, c) == \E j \in DOMAIN s : s[j] = c

\* s.split(d) for a one-character separator d: the texts between consecutive
\* separators, one more than there are separators
Split(s, d) ==
    LET at == {j \in DOMAIN s : s[j] = d}
        cut(k) == IF k = 0 THEN 0
                  ELSE IF k > Cardinality(at) THEN Len(s) + 1
                  ELSE CHOOSE j \in at : Cardinality({m \in at : m <= j}) = k
    IN  [k \in 1..(Cardinality(at) + 1) |-> SubSeq(s, cut(k - 1) + 1, cut(k) - 1)]

\* s.replace(old, new): every non-overlapping occurrence, scanning left to right
RECURSIVE Replace(_, _, _)
Replace(s, old, new) ==
    IF Len(s) < Len(old) THEN s
    ELSE IF SubSeq(s, 1, Len(old)) = old
         THEN new \o Replace(SubSeq(s, Len(old) + 1, Len(s)), old, new)
         ELSE <<Head(s)>> \o Replace(Tail(s), old, new)

\* seq[-1]
Last(seq) == seq[Len(seq)]

\* filename.split('/')[-1].replace('.txt', '')
Accession(filename) == Replace(Last(Split(filename, "/")), TXT, <<>>)

\* the dict appended at lines 65-72
Filing(parts) ==
    [ cik        |-> parts[1],
      company    |-> parts[2],
      form_type  |-> parts[3],
      date_filed |-> parts[4],
      accession  |-> Accession(parts[5]),
      file_url   |-> ARCHIVES \o parts[5] ]

\* mutant: the fields are not stripped
Parts_NoStrip(ln) == Split(Strip(ln), "|")

\* [p.strip() for p in line.strip().split('|')]
Parts(ln) ==
    LET raw == Split(Strip(ln), "|")
    IN  [j \in 1..Len(raw) |-> Strip(raw[j])]

\* one iteration of the loop of parse_idx: the list after reading ln
ParseLine(acc, ln) ==
    IF Contains(ln, "|")
    THEN LET parts == Parts(ln)
         IN  IF Len(parts) = 5
             THEN IF parts[3] \in TARGET_FORMS
                  THEN Append(acc, Filing(parts))
                  ELSE acc
             ELSE acc
    ELSE acc

\* parse_idx over the lines of the extracted index file
RECURSIVE ParseFrom(_, _)
ParseFrom(acc, lns) ==
    IF lns = <<>> THEN acc ELSE ParseFrom(ParseLine(acc, Head(lns)), Tail(lns))

parse_idx(lns) == ParseFrom(<<>>, lns)

\* ------------------------------------------------------------------- state
Procs == {1, 2}   \* OS processes that may run the job

VARIABLES
    idxfile,     \* parse_idx: the lines of the file at `path`
    nread,       \* parse_idx: how many of them the loop has read
    out,         \* parse_idx: the local list `filings` being built
    collection,  \* the MongoDB collection edgar.filings: documents in insertion order
    runs,        \* invocations of main started so far; also the reading of the clock
    pc,          \* per process: where main stands
    gz_file,     \* per process: content of the file at gz_path
    idx_file,    \* per process: content of the file at idx_path
    filings,     \* per process: main's list `filings`
    pos,         \* per process: index in `filings` of the record the loop is at
    new_count,   \* per process: main's counter
    filing,      \* per process: main's loop variable, the dict insert_unique works on
    text,        \* per process: insert_unique's local `text`
    log,         \* per process: what the run has written to edgar_ingest.log
    exit,        \* per process: how its last invocation of main ended
    archive,     \* history, per process: what the archive stage of the run received
    before,      \* history, per process: the collection as the run found it
    calls,       \* history, per process: invocations of insert_unique in the run
    requests,    \* history, per process: file_urls requested in the run
    resp,        \* history, per process: what the last text request of the call got
    ret,         \* history, per process: how the last call of insert_unique ended
    failed       \* history: <<accession, run>> of every failed text fetch

parser_vars == <<idxfile, nread, out>>
job_vars == <<collection, runs, pc, gz_file, idx_file, filings, pos, new_count, filing,
              text, log, exit, archive, before, calls, requests, resp, ret, failed>>
vars == <<parser_vars, job_vars>>

\* Python's None, and a value that is not None: a sequence of no or one element
None == <<>>
Some(v) == <<v>>
Value(o) == o[1]

\* no file at the path
NoFile == [state |-> "absent", lines |-> <<>>]

\* no response received
NoResp == [raised |-> FALSE, status_code |-> 0, text |-> <<>>]

\* all sequences over S of length at most n
RECURSIVE SeqsUpTo(_, _)
SeqsUpTo(S, n) ==
    IF n = 0 THEN {<<>>}
    ELSE LET shorter == SeqsUpTo(S, n - 1)
         IN  shorter \cup {Append(s, c) : s \in {t \in shorter : Len(t) = n - 1}, c \in S}

\* index lines as EDGAR publishes them: CIK|Company Name|Form Type|Date Filed|Filename
LineA == <<"1","|","A","|","4","|","d","|","e","/","a",".","t","x","t","\n">>
LineB == <<"2","|","B","|","4","|","d","|","e","/","b",".","t","x","t","\n">>
Line8 == <<"3","|","C","|","8","|","d","|","e","/","c",".","t","x","t","\n">>

JobIdle ==
    /\ collection = <<>>
    /\ runs = 0
    /\ pc = [p \in Procs |-> "idle"]
    /\ gz_file = [p \in Procs |-> NoFile]
    /\ idx_file = [p \in Procs |-> <<>>]
    /\ filings = [p \in Procs |-> <<>>]
    /\ pos = [p \in Procs |-> 0]
    /\ new_count = [p \in Procs |-> 0]
    /\ filing = [p \in Procs |-> None]
    /\ text = [p \in Procs |-> None]
    /\ log = [p \in Procs |-> <<>>]
    /\ exit = [p \in Procs |-> "None"]
    /\ archive = [p \in Procs |-> "None"]
    /\ before = [p \in Procs |-> <<>>]
    /\ calls = [p \in Procs |-> 0]
    /\ requests = [p \in Procs |-> <<>>]
    /\ resp = [p \in Procs |-> NoResp]
    /\ ret = [p \in Procs |-> "None"]
    /\ failed = {}

ParserIdle == idxfile = <<>> /\ nread = 0 /\ out = <<>>

\* --------------------------------------------- parser specification (lines)
LineChars == {"|", " ", "4", "8"}

\* the last line of the file: any text over LineChars, with or without its
\* newline; the lines before it are published lines
LastLines == {body \o eol : body \in SeqsUpTo(LineChars, MaxLineLen), eol \in {<<>>, <<"\n">>}}

ParseInit ==
    /\ idxfile \in {pre \o <<ln>> : pre \in SeqsUpTo({LineA, Line8}, MaxLines), ln \in LastLines}
    /\ nread = 0
    /\ out = <<>>
    /\ JobIdle

\* for line in f: ... (one iteration)
ReadLine ==
    /\ nread < Len(idxfile)
    /\ nread' = nread + 1
    /\ out' = ParseLine(out, idxfile[nread + 1])
    /\ UNCHANGED <<idxfile, job_vars>>

ParseNext == ReadLine

ParseSpec == ParseInit /\ [][ParseNext]_vars

\* -------------------------------------- accession specification (filenames)
NameChars == {"/", ".", "t", "x"}

\* filename fields: a path ending in .txt, as every EDGAR filing path does
FileNames == {stem \o TXT : stem \in SeqsUpTo(NameChars, MaxNameLen)}

AccInit ==
    /\ idxfile \in {<< <<"1","|","A","|","4","|","d","|">> \o fn \o <<"\n">> >> : fn \in FileNames}
    /\ nread = 0
    /\ out = <<>>
    /\ JobIdle

AccSpec == AccInit /\ [][ParseNext]_vars

\* ------------------------------------------------------------ the job
\* what the archive may serve for the daily index: a body that is no gzip
\* stream, or the gzip of some index
Corrupt == [state |-> "corrupt", lines |-> <<>>]
IndexFiles == SeqsUpTo({LineA, LineB, Line8}, MaxIdxLines)
GzBodies == {Corrupt} \cup {[state |-> "gzip", lines |-> c] : c \in IndexFiles}
StatusCodes == {200, 404}

\* what it may serve on a day on which the job is triggered twice
DayBodies == {Corrupt, [state |-> "gzip", lines |-> <<LineA, Line8, LineA>>],
              [state |-> "gzip", lines |-> <<LineB, LineA>>]}

\* parse_idx, tabulated over the index files the job can extract
ParsedIndex == [c \in IndexFiles \cup {b.lines : b \in DayBodies} |-> parse_idx(c)]

\* what requests.get(file_url, ...) may do: raise, or return a response
Responses ==
    {[raised |-> TRUE, status_code |-> 0, text |-> <<>>]}
    \cup {[raised |-> FALSE, status_code |-> 200, text |-> b] : b \in {<<>>, <<"F">>}}
    \cup {[raised |-> FALSE, status_code |-> 404, text |-> <<"E">>]}

\* datetime.datetime.utcnow(), at the resolution of invocations of main
utcnow == runs

\* the classes the raised exceptions belong to all derive from Exception
IsException(e) == e \in {"Exception", "BadGzipFile", "PyMongoError", "RequestException"}

\* mutant: the handler names the base class only by exact type
MainCatches_ExactType(e) == e = "Exception"

\* main's handler: except Exception
MainCatches(e) == IsException(e)

\* mutant: fetch_filing_text without its try/except
FetchCatches_Nothing(e) == FALSE

\* fetch_filing_text's handler: except Exception
FetchCatches(e) == IsException(e)

\* mutant: download_gz without the status check
DownloadRaises_Never(status) == FALSE

\* download_gz: if r.status_code != 200: raise
DownloadRaises(status) == status # 200

\* mutant: the query names a field no document has
find_one_wrong_field(coll, a) == None

\* collection.find_one({"accession": a}): the first match, or None
find_one(coll, a) ==
    IF \E j \in DOMAIN coll : coll[j].accession = a
    THEN Some(coll[CHOOSE j \in DOMAIN coll :
               coll[j].accession = a /\ \A m \in 1..(j - 1) : coll[m].accession # a])
    ELSE None

\* mutant: the lookup at line 88 is keyed by the record's file_url
Known_ByUrl(coll, f) == find_one(coll, f.file_url) # None

\* the test at line 88: if collection.find_one({"accession": filing["accession"]})
Known(coll, f) == find_one(coll, f.accession) # None

\* mutant: the collection has a unique index on accession, and a refused
\* insert goes unnoticed
insert_one_unique_index(coll, doc) ==
    IF \E j \in DOMAIN coll : coll[j].accession = doc.accession THEN coll ELSE Append(coll, doc)

\* collection.insert_one(doc): the collection has no unique index
insert_one(coll, doc) == Append(coll, doc)

\* truth value of `text` at `if text:`
Truthy(t) == t # None /\ Value(t) # <<>>

\* the value fetch_filing_text returns when requests.get did r and nothing escapes
fetch_filing_text(r) ==
    IF r.raised THEN None
    ELSE IF r.status_code = 200 THEN Some(r.text) ELSE None

\* what fetch_filing_text logs
FetchLog(r, url) ==
    IF r.raised THEN << <<"ERROR", "Exception fetching", url>> >>
    ELSE IF r.status_code = 200 THEN <<>>
    ELSE << <<"WARNING", "Failed to fetch filing text", url>> >>

\* an exception e leaves main's try block in process p: the temporary
\* directory is removed, the locals die, and the handler logs e or e escapes
Unwind(p, e, lg) ==
    /\ pc' = [pc EXCEPT ![p] = IF MainCatches(e) THEN "idle" ELSE "crashed"]
    /\ exit' = [exit EXCEPT ![p] = IF MainCatches(e) THEN "returned" ELSE "propagated"]
    /\ log' = [log EXCEPT ![p] = IF MainCatches(e) THEN lg \o << <<"ERROR", "Fatal error", e>> >> ELSE lg]
    /\ gz_file' = [gz_file EXCEPT ![p] = NoFile]
    /\ idx_file' = [idx_file EXCEPT ![p] = <<>>]
    /\ filings' = [filings EXCEPT ![p] = <<>>]
    /\ pos' = [pos EXCEPT ![p] = 0]
    /\ new_count' = [new_count EXCEPT ![p] = 0]
    /\ filing' = [filing EXCEPT ![p] = None]
    /\ text' = [text EXCEPT ![p] = None]

\* main is invoked in process p: get_today_idx_url, TemporaryDirectory
Start(p) ==
    /\ pc[p] = "idle"
    /\ runs < MaxRuns
    /\ runs' = runs + 1
    /\ pc' = [pc EXCEPT ![p] = "download"]
    /\ log' = [log EXCEPT ![p] = <<>>]
    /\ exit' = [exit EXCEPT ![p] = "None"]
    /\ archive' = [archive EXCEPT ![p] = "None"]
    /\ before' = [before EXCEPT ![p] = collection]
    /\ calls' = [calls EXCEPT ![p] = 0]
    /\ requests' = [requests EXCEPT ![p] = <<>>]
    /\ resp' = [resp EXCEPT ![p] = NoResp]
    /\ ret' = [ret EXCEPT ![p] = "None"]
    /\ UNCHANGED <<parser_vars, collection, gz_file, idx_file, filings, pos, new_count,
                   filing, text, failed>>

\* download_gz(url, gz_path), the archive serving one of `bodies`
download_gz(p, bodies) ==
    /\ pc[p] = "download"
    /\ \E status \in StatusCodes, body \in bodies :
         LET lg == log[p] \o << <<"INFO", "Downloading">> >> IN
         /\ archive' = [archive EXCEPT ![p] = IF status = 200 THEN "ok" ELSE "bad_status"]
         /\ IF DownloadRaises(status)
            THEN Unwind(p, "Exception", lg)
            ELSE /\ gz_file' = [gz_file EXCEPT ![p] = body]
                 /\ pc' = [pc EXCEPT ![p] = "decompress"]
                 /\ log' = [log EXCEPT ![p] = lg]
                 /\ UNCHANGED <<exit, idx_file, filings, pos, new_count, filing, text>>
    /\ UNCHANGED <<parser_vars, collection, runs, before, calls, requests, resp, ret, failed>>

\* decompress_gz(gz_path, idx_path)
decompress_gz(p) ==
    /\ pc[p] = "decompress"
    /\ IF gz_file[p].state # "gzip"
       THEN /\ archive' = [archive EXCEPT ![p] = IF @ = "ok" THEN "bad_gzip" ELSE @]
            /\ Unwind(p, "BadGzipFile", log[p])
       ELSE /\ idx_file' = [idx_file EXCEPT ![p] = gz_file[p].lines]
            /\ pc' = [pc EXCEPT ![p] = "parse"]
            /\ UNCHANGED <<archive, exit, log, gz_file, filings, pos, new_count, filing, text>>
    /\ UNCHANGED <<parser_vars, collection, runs, before, calls, requests, resp, ret, failed>>

\* filings = parse_idx(idx_path); logger.info(...); new_count = 0
Parse(p) ==
    /\ pc[p] = "parse"
    /\ filings' = [filings EXCEPT ![p] = ParsedIndex[idx_file[p]]]
    /\ log' = [log EXCEPT ![p] = @ \o << <<"INFO", "Parsed", Len(ParsedIndex[idx_file[p]])>> >>]
    /\ new_count' = [new_count EXCEPT ![p] = 0]
    /\ pos' = [pos EXCEPT ![p] = 1]
    /\ pc' = [pc EXCEPT ![p] = "loop"]
    /\ UNCHANGED <<parser_vars, collection, runs, gz_file, idx_file, filing, text, exit,
                   archive, before, calls, requests, resp, ret, failed>>

\* insert_unique, lines 88-90: the existence check and the time stamp
Lookup(p) ==
    /\ pc[p] = "loop"
    /\ pos[p] <= Len(filings[p])
    /\ calls' = [calls EXCEPT ![p] = @ + 1]
    /\ resp' = [resp EXCEPT ![p] = NoResp]
    /\ \E up \in BOOLEAN :
         LET f == filings[p][pos[p]] IN
         IF ~up
         THEN /\ Unwind(p, "PyMongoError", log[p])
              /\ ret' = [ret EXCEPT ![p] = "raised"]
         ELSE IF Known(collection, f)
         THEN /\ ret' = [ret EXCEPT ![p] = "False"]
              /\ pos' = [pos EXCEPT ![p] = @ + 1]
              /\ filing' = [filing EXCEPT ![p] = Some(f)]
              /\ UNCHANGED <<pc, exit, log, gz_file, idx_file, filings, new_count, text>>
         ELSE /\ ret' = [ret EXCEPT ![p] = "None"]
              /\ filing' = [filing EXCEPT ![p] = Some(f @@ [ingested_at |-> utcnow])]
              /\ pc' = [pc EXCEPT ![p] = "fetch"]
              /\ UNCHANGED <<pos, exit, log, gz_file, idx_file, filings, new_count, text>>
    /\ UNCHANGED <<parser_vars, collection, runs, archive, before, requests, failed>>

\* insert_unique, lines 91-93 and 96: fetch_filing_text and the test of `text`
Fetch(p) ==
    /\ pc[p] = "fetch"
    /\ \E r \in Responses :
         LET url == Value(filing[p]).file_url
             t == fetch_filing_text(r)
             lg == log[p] \o FetchLog(r, url)
         IN
         /\ requests' = [requests EXCEPT ![p] = Append(@, url)]
         /\ resp' = [resp EXCEPT ![p] = r]
         /\ failed' = IF r.raised \/ r.status_code # 200
                      THEN failed \cup {<<Value(filing[p]).accession, runs>>}
                      ELSE failed
         /\ IF r.raised /\ ~FetchCatches("RequestException")
            THEN /\ Unwind(p, "RequestException", log[p])
                 /\ ret' = [ret EXCEPT ![p] = "raised"]
            ELSE IF Truthy(t)
            THEN /\ text' = [text EXCEPT ![p] = t]
                 /\ filing' = [filing EXCEPT ![p] = Some(Value(@) @@ [raw_text |-> Value(t)])]
                 /\ pc' = [pc EXCEPT ![p] = "insert"]
                 /\ log' = [log EXCEPT ![p] = lg]
                 /\ UNCHANGED <<ret, pos, exit, gz_file, idx_file, filings, new_count>>
            ELSE /\ ret' = [ret EXCEPT ![p] = "False"]
                 /\ pos' = [pos EXCEPT ![p] = @ + 1]
                 /\ pc' = [pc EXCEPT ![p] = "loop"]
                 /\ log' = [log EXCEPT ![p] = lg]
                 /\ UNCHANGED <<filing, text, exit, gz_file, idx_file, filings, new_count>>
    /\ UNCHANGED <<parser_vars, collection, runs, archive, before, calls>>

\* insert_unique, lines 94-95, and new_count += 1
Insert(p) ==
    /\ pc[p] = "insert"
    /\ \E up \in BOOLEAN :
         IF ~up
         THEN /\ Unwind(p, "PyMongoError", log[p])
              /\ ret' = [ret EXCEPT ![p] = "raised"]
              /\ UNCHANGED collection
         ELSE /\ collection' = insert_one(collection, Value(filing[p]))
              /\ ret' = [ret EXCEPT ![p] = "True"]
              /\ new_count' = [new_count EXCEPT ![p] = @ + 1]
              /\ pos' = [pos EXCEPT ![p] = @ + 1]
              /\ pc' = [pc EXCEPT ![p] = "loop"]
              /\ text' = [text EXCEPT ![p] = None]
              /\ UNCHANGED <<filing, exit, log, gz_file, idx_file, filings>>
    /\ UNCHANGED <<parser_vars, runs, archive, before, calls, requests, resp, failed>>

\* the loop is exhausted: the final count is logged and main returns
Finish(p) ==
    /\ pc[p] = "loop"
    /\ pos[p] > Len(filings[p])
    /\ log' = [log EXCEPT ![p] = @ \o << <<"INFO", "Inserted", new_count[p]>> >>]
    /\ exit' = [exit EXCEPT ![p] = "returned"]
    /\ pc' = [pc EXCEPT ![p] = "idle"]
    /\ gz_file' = [gz_file EXCEPT ![p] = NoFile]
    /\ idx_file' = [idx_file EXCEPT ![p] = <<>>]
    /\ filings' = [filings EXCEPT ![p] = <<>>]
    /\ pos' = [pos EXCEPT ![p] = 0]
    /\ new_count' = [new_count EXCEPT ![p] = 0]
    /\ filing' = [filing EXCEPT ![p] = None]
    /\ UNCHANGED <<parser_vars, collection, runs, text, archive, before, calls,
                   requests, resp, ret, failed>>

\* main, one step of it, in process p
main(p, bodies) ==
    \/ Start(p)
    \/ download_gz(p, bodies)
    \/ decompress_gz(p)
    \/ Parse(p)
    \/ Lookup(p)
    \/ Fetch(p)
    \/ Insert(p)
    \/ Finish(p)

Init == ParserIdle /\ JobIdle

\* strictly sequential execution: one process runs the job, again and again
Next == main(1, GzBodies)

Spec == Init /\ [][Next]_vars

\* every blocking call of a started run returns, so the run goes on
FairSpec == Spec /\ WF_vars(Next)

\* the job triggered in two processes against the same store, on the same day
ConcNext == \E p \in Procs : main(p, DayBodies)

ConcSpec == Init /\ [][ConcNext]_vars

\* ------------------------------------------------------------ properties
\* process p's run has logged a message of this kind
Logged(p, kind) == \E j \in DOMAIN log[p] : log[p][j][2] = kind

\* the documents of the collection with this accession
DocsOf(coll, a) == {j \in DOMAIN coll : coll[j].accession = a}

\* C1: under strictly sequential execution, after any sequence of runs of
\* main, the store holds at most one document per accession value.
C1_AtMostOnePerAccession ==
    \A j, m \in DOMAIN collection :
        collection[j].accession = collection[m].accession => j = m

\* a second run has met an accession a first run inserted, and has skipped it
C1_Witness ==
    /\ runs = 2
    /\ ret[1] = "False"
    /\ filing[1] # None
    /\ \E j \in DOMAIN collection :
         /\ collection[j].accession = Value(filing[1]).accession
         /\ collection[j].ingested_at = 1

\* C2: with two concurrent runs, check-then-insert is not atomic and the store
\* enforces no uniqueness: an insert_one made by a run that passed the
\* existence check, when another run has inserted the same accession in
\* between, succeeds and leaves two documents with that accession.
C2_RaceLeavesDuplicates ==
    [][\A p \in Procs :
          (/\ pc[p] = "insert"
           /\ ret'[p] = "True"
           /\ DocsOf(collection, Value(filing[p]).accession) # {})
          => Cardinality(DocsOf(collection', Value(filing[p]).accession)) >= 2]_vars

\* two documents with the same accession are in the store
C2_Witness ==
    \E j, m \in DOMAIN collection :
        j # m /\ collection[j].accession = collection[m].accession

\* C5: when insert_unique is called with a record whose accession already has
\* a document in the store, it returns false without any text fetch and
\* without modifying the store.
C5_KnownAccessionSkipsFetch ==
    [][\A p \in Procs :
          (/\ pc[p] = "loop"
           /\ calls'[p] = calls[p] + 1
           /\ ret'[p] # "raised"
           /\ DocsOf(collection, filings[p][pos[p]].accession) # {})
          => /\ ret'[p] = "False"
             /\ pc'[p] = "loop"
             /\ pos'[p] = pos[p] + 1
             /\ requests' = requests
             /\ collection' = collection]_vars

\* a run in which every call met a stored accession: calls, and no request
C5_Witness ==
    /\ calls[1] = 2
    /\ ret[1] = "False"
    /\ requests[1] = <<>>
    /\ collection # <<>>

\* C8: if the archive stage fails in a run (download status not 200, or the
\* downloaded file is no valid gzip stream), no index line is parsed, no
\* filing text is fetched and the store is as the run found it.
C8_ArchiveFailureAborts ==
    \A p \in Procs :
        archive[p] \in {"bad_status", "bad_gzip"}
        => /\ ~Logged(p, "Parsed")
           /\ filings[p] = <<>>
           /\ calls[p] = 0
           /\ requests[p] = <<>>
           /\ collection = before[p]

\* a run over a store that holds documents got a corrupt archive and returned
C8_Witness ==
    /\ archive[1] = "bad_gzip"
    /\ exit[1] = "returned"
    /\ collection # <<>>

ParsedCount(p) ==
    LET j == CHOOSE m \in DOMAIN log[p] : log[p][m][2] = "Parsed" IN log[p][j][3]

\* the run of process p logged the failure of this exception
Fatal(p, e) ==
    \E j \in DOMAIN log[p] : log[p][j][2] = "Fatal error" /\ log[p][j][3] = e

\* C6 as stated: once the index has been parsed, no failure while processing a
\* record (text fetch, store lookup or insert) aborts the run: insert_unique
\* is invoked for every parsed record and the final count is logged.
C6_NoRecordFailureAborts ==
    \A p \in Procs :
        (pc[p] = "idle" /\ Logged(p, "Parsed"))
        => (Logged(p, "Inserted") /\ calls[p] = ParsedCount(p))

\* C6 amended: a text-fetch failure never aborts the run; once the index has
\* been parsed, a run ends either having invoked insert_unique for every
\* parsed record and logged the final count, or on a failure of the store
\* lookup or insert, which aborts the rest of the run and is logged as fatal.
C6_OnlyStoreFailureAborts ==
    \A p \in Procs :
        (pc[p] = "idle" /\ Logged(p, "Parsed"))
        => IF Fatal(p, "PyMongoError")
           THEN ~Logged(p, "Inserted") /\ calls[p] <= ParsedCount(p) /\ ret[p] = "raised"
           ELSE Logged(p, "Inserted") /\ calls[p] = ParsedCount(p) /\ exit[p] = "returned"

\* a run whose first record's text fetch raised went on to insert the second
\* and logged the count
C6_Witness ==
    /\ pc[1] = "idle"
    /\ Len(log[1]) = 4
    /\ log[1][3][2] = "Exception fetching"
    /\ log[1][4] = <<"INFO", "Inserted", 1>>
    /\ calls[1] = 2

\* the text fetch of the last call got a response with status 200
GotOK(p) == ~resp[p].raised /\ resp[p].status_code = 200

\* the text fetch of the last call failed: a non-200 status, or an exception
FetchFailed(p) == resp[p].raised \/ resp[p].status_code \notin {0, 200}

\* the last call of insert_unique in process p has returned
Returned(p) == ret[p] \in {"True", "False"}

\* C4 as stated: for a record whose accession is not in the store, a text
\* fetch answered with status 200 makes insert_unique insert exactly one
\* document, with raw_text the response body and an ingested_at, and return
\* true, whatever the body is.
C4_SuccessResponseInserts ==
    \A p \in Procs :
        (GotOK(p) /\ Returned(p) /\ filing[p] # None)
        => /\ ret[p] = "True"
           /\ collection # <<>>
           /\ Last(collection).accession = Value(filing[p]).accession
           /\ Last(collection).raw_text = resp[p].text
           /\ Last(collection).ingested_at \in 1..runs
           /\ Cardinality(DocsOf(collection, Value(filing[p]).accession)) = 1

\* C3 as stated: a failed text fetch makes insert_unique return false and
\* leave the store without the accession, and the accession stays eligible:
\* a later run that presents it and whose text fetch succeeds inserts it.
C3_FailedFetchStaysEligible ==
    \A p \in Procs :
        /\ (FetchFailed(p) /\ filing[p] # None)
           => /\ ret[p] = "False"
              /\ DocsOf(collection, Value(filing[p]).accession) = {}
        /\ (/\ GotOK(p) /\ Returned(p) /\ filing[p] # None
            /\ \E n \in 1..(runs - 1) : <<Value(filing[p]).accession, n>> \in failed)
           => /\ ret[p] = "True"
              /\ DocsOf(collection, Value(filing[p]).accession) # {}

\* ---------------------------------------------- properties of the parser
\* the text after the first delimiter, and the text before it
RECURSIVE C9_After(_)
C9_After(s) ==
    IF s = <<>> THEN <<>> ELSE IF Head(s) = "|" THEN Tail(s) ELSE C9_After(Tail(s))

RECURSIVE C9_Until(_)
C9_Until(s) ==
    IF s = <<>> THEN <<>>
    ELSE IF Head(s) = "|" THEN <<>> ELSE <<Head(s)>> \o C9_Until(Tail(s))

\* the k-th delimited field of a line
RECURSIVE C9_Field(_, _)
C9_Field(s, k) == IF k = 1 THEN C9_Until(s) ELSE C9_Field(C9_After(s), k - 1)

\* a text without the white space around it
C9_Trim(s) ==
    LET ink == {j \in DOMAIN s : s[j] \notin Whitespace}
    IN  IF ink = {} THEN <<>>
        ELSE SubSeq(s, CHOOSE j \in ink : \A m \in ink : j <= m,
                       CHOOSE j \in ink : \A m \in ink : m <= j)

\* the line has exactly five fields, the third an accepted form type
C9_Qualifies(ln) ==
    /\ Cardinality({j \in DOMAIN ln : ln[j] = "|"}) = 4
    /\ C9_Trim(C9_Field(ln, 3)) \in TARGET_FORMS

\* C9: parse_idx emits exactly one record for a line if and only if the line
\* contains '|', splits on it into exactly five trimmed fields and its third
\* field is an accepted form type; every other line contributes nothing, and
\* the records appear in line order.
C9_OneRecordPerQualifyingLine ==
    LET q == {j \in 1..nread : C9_Qualifies(idxfile[j])} IN
    /\ Len(out) = Cardinality(q)
    /\ \A j \in q :
         LET rec == out[Cardinality({m \in q : m <= j})] IN
         /\ rec.cik = C9_Trim(C9_Field(idxfile[j], 1))
         /\ rec.company = C9_Trim(C9_Field(idxfile[j], 2))
         /\ rec.form_type = C9_Trim(C9_Field(idxfile[j], 3))
         /\ rec.date_filed = C9_Trim(C9_Field(idxfile[j], 4))

\* a published line and a line with blanks around its fields both gave a
\* record, in that order
C9_Witness ==
    /\ nread = 2
    /\ Len(out) = 2
    /\ out[1].cik = <<"1">>
    /\ Contains(SubSeq(idxfile[2], 1, Len(idxfile[2]) - 1), " ")

\* the text after the last '/'
RECURSIVE C10_LastSegment(_)
C10_LastSegment(s) ==
    IF Contains(s, "/")
    THEN C10_LastSegment(SubSeq(s, 1 + CHOOSE j \in DOMAIN s : s[j] = "/", Len(s)))
    ELSE s

\* the text without a trailing .txt
C10_StripSuffix(s) ==
    IF Len(s) >= Len(TXT) /\ SubSeq(s, Len(s) - Len(TXT) + 1, Len(s)) = TXT
    THEN SubSeq(s, 1, Len(s) - Len(TXT))
    ELSE s

\* C10 as stated: the accession of an emitted record is the last '/'-separated
\* segment of the filename field with only the trailing '.txt' stripped, any
\* other occurrence of '.txt' in it kept.
C10_AccessionIsStrippedSegment ==
    nread = 1
    => /\ Len(out) = 1
       /\ out[1].accession =
              C10_StripSuffix(C10_LastSegment(C9_Trim(C9_Field(idxfile[1], 5))))

====
